---- MODULE Spec2Model ----
(***************************************************************************)
(* drand-verify: verification of drand randomness beacons.                 *)
(*                                                                         *)
(* The elliptic-curve engine (bls12_381 / arkworks) is outside the         *)
(* repository.  It is modelled as a generic bilinear group: a point is a   *)
(* formal linear combination, with coefficients modulo the prime           *)
(* ScalarOrder, of independent basis points (the generator and one point   *)
(* per hash-to-curve input), and the pairing is the bilinear form on the   *)
(* coefficients.  SHA-256 is a perfect (collision free) hash: the digest   *)
(* is the term <<"sha256", input>>.                                        *)
(***************************************************************************)
EXTENDS Integers, Sequences, FiniteSets, TLC

VARIABLES arkworks, keys, last, threads, frames, cli

vars == <<arkworks, keys, last, threads, frames, cli>>

\* the threads that call verify concurrently and the command-line process
procs == <<threads, frames, cli>>

-----------------------------------------------------------------------------
(* Bounds of the model *)

\* secret keys of the genuine signers are 1..MaxSecret
MaxSecret == 2
\* number of Pubkey instances alive at the same time
MaxKeys == 1
\* number of threads that call verify at the same time
MaxThreads == 2

-----------------------------------------------------------------------------
(* Program constants *)

\* points.rs: data.len() != 48
G1Size == 48
\* points.rs: data.len() != 96
G2Size == 96
\* order of the prime-order subgroups G1, G2 and of the target group
\* (a small prime stands for the 255-bit r of BLS12-381)
ScalarOrder == 7

DOMAIN_HASH_TO_G2 == "BLS_SIG_BLS12381G2_XMD:SHA-256_SSWU_RO_NUL_"
DOMAIN_HASH_TO_G1 == "BLS_SIG_BLS12381G1_XMD:SHA-256_SSWU_RO_NUL_"

-----------------------------------------------------------------------------
(* Bytes *)

Zeros(n) == [i \in 1..n |-> 0]

\* data with the byte at position i replaced by b
SetByte(data, i, b) == [data EXCEPT ![i] = b]

\* sha2::Sha256 as a perfect hash
Sha256(data) == <<"sha256", data>>

\* the n low bytes of a non-negative integer, most significant byte first
RECURSIVE BigEndian(_, _)
BigEndian(x, n) == IF n = 0 THEN <<>> ELSE Append(BigEndian(x \div 256, n - 1), x % 256)

\* the n low bytes of a non-negative integer, least significant byte first
RECURSIVE LittleEndian(_, _)
LittleEndian(x, n) == IF n = 0 THEN <<>> ELSE <<x % 256>> \o LittleEndian(x \div 256, n - 1)

\* the value of a sequence of bytes read with the most significant byte first
RECURSIVE BigEndianValue(_)
BigEndianValue(bytes) ==
    IF bytes = <<>> THEN 0
    ELSE BigEndianValue(SubSeq(bytes, 1, Len(bytes) - 1)) * 256 + bytes[Len(bytes)]

-----------------------------------------------------------------------------
(* The curve engine: groups *)

\* a vector of coefficients without its zero entries
Sparse(f) == [k \in {d \in DOMAIN f : f[d] % ScalarOrder # 0} |-> f[k] % ScalarOrder]

Coef(v, k) == IF k \in DOMAIN v THEN v[k] ELSE 0

ZeroVec == Sparse([k \in {} |-> 0])

\* basis points: the generator of a group, and the hash of (msg, dst) to it
GenBase == <<"gen", <<"none", <<>>>>, "">>
HashBase(msg, dst) == <<"h2c", msg, dst>>

\* grp: 1 or 2; v: the component in the prime-order subgroup; t: the component
\* in the cofactor torsion (0 for an element of the prime-order subgroup)
Point(g, v, t) == [grp |-> g, v |-> v, t |-> t]

Identity(g) == Point(g, ZeroVec, 0)

Mul(c, P) == Point(P.grp, Sparse([k \in DOMAIN P.v |-> c * P.v[k]]), (c * P.t) % 2)

NegPoint(P) == Mul(ScalarOrder - 1, P)

\* G1Affine::generator(), G2Affine::generator()
Generator(g) == Point(g, Sparse([k \in {GenBase} |-> 1]), 0)

g1_generator == Generator(1)
g2_generator == Generator(2)

\* a point of the curve outside the prime-order subgroup
TorsionPoint(g) == Point(g, Sparse([k \in {GenBase} |-> 1]), 1)

is_torsion_free(P) == P.t = 0

is_identity_point(P) == DOMAIN P.v = {} /\ P.t = 0

\* HashToCurve::<ExpandMsgXmd<Sha256>>::hash_to_curve(msg, dst) into group g
hash_to_curve(msg, dst, g) == Point(g, Sparse([k \in {HashBase(msg, dst)} |-> 1]), 0)

\* elements of the target group: coefficients on pairs of basis points
GtIdentity == Sparse([k \in {} |-> 0])

GtMul(a, b) == Sparse([k \in (DOMAIN a) \cup (DOMAIN b) |-> Coef(a, k) + Coef(b, k)])

gt_is_identity(a) == DOMAIN a = {}

\* one Miller loop and final exponentiation of (p, q), p in G1 and q in G2;
\* the final exponentiation removes the cofactor components
PairingValue(p, q) ==
    Sparse([k \in (DOMAIN p.v) \X (DOMAIN q.v) |-> p.v[k[1]] * q.v[k[2]]])

\* Bls12::multi_miller_loop(pairs).final_exponentiation()
RECURSIVE MultiPairing(_)
MultiPairing(pairs) ==
    IF pairs = <<>> THEN GtIdentity
    ELSE GtMul(PairingValue(Head(pairs)[1], Head(pairs)[2]), MultiPairing(Tail(pairs)))

-----------------------------------------------------------------------------
(* The drand networks: the beacons a genuine signer publishes *)

Variants == {"G1Pubkey", "G2PubkeyFastnet", "G2PubkeyRfc"}

\* rounds of the beacons
RoundSeq == <<1, 257>>
Rounds == {RoundSeq[i] : i \in DOMAIN RoundSeq}

\* previous signatures: none (unchained mode), one of a chained network, and
\* that one with its first byte changed
PrevSigA == <<166, 9>> \o Zeros(G2Size - 2)
PrevSigCorrupted == SetByte(PrevSigA, 1, 106)
PrevSeq == <<(<<>>), PrevSigA, PrevSigCorrupted>>
PrevSigs == {PrevSeq[i] : i \in DOMAIN PrevSeq}

Secrets == 1..MaxSecret

\* the message a drand node signs for a round
SignerMessage(round, prev) == Sha256(prev \o BigEndian(round, 8))

\* the groups and the domain separation tag of each scheme
SchemeKeyGroup(variant) == IF variant = "G1Pubkey" THEN 1 ELSE 2
SchemeSigGroup(variant) == IF variant = "G1Pubkey" THEN 2 ELSE 1
SchemeDst(variant) == IF variant = "G2PubkeyRfc" THEN DOMAIN_HASH_TO_G1 ELSE DOMAIN_HASH_TO_G2

GroupSize(g) == IF g = 1 THEN G1Size ELSE G2Size

MsgSeq ==
    [i \in 1..(Len(RoundSeq) * Len(PrevSeq)) |->
        SignerMessage(RoundSeq[((i - 1) \div Len(PrevSeq)) + 1],
                      PrevSeq[((i - 1) % Len(PrevSeq)) + 1])]

DstSeq == <<DOMAIN_HASH_TO_G2, DOMAIN_HASH_TO_G1>>

BaseSeq ==
    <<GenBase>> \o
    [i \in 1..(Len(MsgSeq) * Len(DstSeq)) |->
        HashBase(MsgSeq[((i - 1) \div Len(DstSeq)) + 1], DstSeq[((i - 1) % Len(DstSeq)) + 1])]

\* the curve of group g: the point with x-coordinate i and the smaller y is
\* CurveSeq(g)[i]; no other x in the model is the coordinate of a point
CurveSeq(g) ==
    <<TorsionPoint(g)>> \o
    [i \in 1..(MaxSecret * Len(BaseSeq)) |->
        Point(g, Sparse([k \in {BaseSeq[((i - 1) \div MaxSecret) + 1]} |->
                            ((i - 1) % MaxSecret) + 1]), 0)]

CurveByGroup == [g \in {1, 2} |-> CurveSeq(g)]
Curve(g) == CurveByGroup[g]

-----------------------------------------------------------------------------
(* The curve engine: compressed points *)

Some(v) == [some |-> TRUE, val |-> v]
None == [some |-> FALSE]

\* to_compressed(): flags in the three high bits of the first byte
\* (128 compressed, 64 infinity, 32 larger y), then the x-coordinate
Compress(P) ==
    LET n == GroupSize(P.grp)
        C == Curve(P.grp)
    IN  IF is_identity_point(P) THEN <<192>> \o Zeros(n - 1)
        ELSE LET i == CHOOSE j \in 1..Len(C) : C[j] = P \/ C[j] = NegPoint(P)
             IN  <<128 + (IF C[i] = P THEN 0 ELSE 32)>> \o Zeros(n - 2) \o <<i>>

\* from_compressed_unchecked(): the flags are consistent and x is the
\* coordinate of a point of the curve; no subgroup check
from_compressed_unchecked(data, g) ==
    LET n == GroupSize(g)
        compression == data[1] \div 128 = 1
        infinity == (data[1] \div 64) % 2 = 1
        sort == (data[1] \div 32) % 2 = 1
        xhigh == [i \in 1..(n - 1) |-> IF i = 1 THEN data[1] % 32 ELSE data[i]]
        x == data[n]
    IN  IF ~compression THEN None
        ELSE IF infinity
             THEN IF ~sort /\ xhigh = Zeros(n - 1) /\ x = 0 THEN Some(Identity(g)) ELSE None
        ELSE IF xhigh = Zeros(n - 1) /\ x \in 1..Len(Curve(g))
             THEN Some(IF sort THEN NegPoint(Curve(g)[x]) ELSE Curve(g)[x])
        ELSE None

\* .and_then(|p| CtOption::new(p, p.is_torsion_free())): the subgroup check
and_then_is_torsion_free(p) == IF p.some /\ is_torsion_free(p.val) THEN p ELSE None

\* from_compressed(): from_compressed_unchecked and the subgroup check
from_compressed(data, g) == and_then_is_torsion_free(from_compressed_unchecked(data, g))

\* arkworks: deserialize_compressed() validates the point
deserialize_compressed(data, g) == from_compressed(data, g)

-----------------------------------------------------------------------------
(* points.rs *)

Ok(v) == [ok |-> TRUE, val |-> v]
Err(e) == [ok |-> FALSE, err |-> e]

InvalidLength(expected, actual) ==
    [kind |-> "InvalidLength", expected |-> expected, actual |-> actual]
DecodingError == [kind |-> "DecodingError", expected |-> 0, actual |-> 0]

\* impl fmt::Display for InvalidPoint
InvalidPointDisplay(e) ==
    IF e.kind = "InvalidLength"
    THEN "Invalid input length for point (must be in compressed format): Expected "
         \o ToString(e.expected) \o ", actual: " \o ToString(e.actual)
    ELSE "Invalid point"

ok_or(opt, e) == IF opt.some THEN Ok(opt.val) ELSE Err(e)

\* g1_from_fixed without the subgroup check
g1_from_fixed_skips_subgroup_check(ark, data) ==
    IF ark THEN ok_or(deserialize_compressed(data, 1), DecodingError)
    ELSE ok_or(from_compressed_unchecked(data, 1), DecodingError)

g1_from_fixed(ark, data) ==
    IF ark THEN ok_or(deserialize_compressed(data, 1), DecodingError)
    ELSE ok_or(from_compressed(data, 1), DecodingError)

\* g1_from_fixed_unchecked that drops the flag of the larger y
g1_from_fixed_unchecked_ignores_sort(ark, data) ==
    LET cleared == SetByte(data, 1, data[1] - 32 * ((data[1] \div 32) % 2))
    IN  IF ark THEN ok_or(deserialize_compressed(cleared, 1), DecodingError)
        ELSE ok_or(from_compressed_unchecked(cleared, 1), DecodingError)

g1_from_fixed_unchecked(ark, data) ==
    IF ark THEN ok_or(deserialize_compressed(data, 1), DecodingError)
    ELSE ok_or(from_compressed_unchecked(data, 1), DecodingError)

g2_from_fixed(ark, data) ==
    IF ark THEN ok_or(deserialize_compressed(data, 2), DecodingError)
    ELSE ok_or(from_compressed(data, 2), DecodingError)

g2_from_fixed_unchecked(ark, data) ==
    IF ark THEN ok_or(deserialize_compressed(data, 2), DecodingError)
    ELSE ok_or(from_compressed_unchecked(data, 2), DecodingError)

\* g1_from_variable reporting the two lengths in each other's place
g1_from_variable_swapped_lengths(ark, data) ==
    IF Len(data) # G1Size THEN Err(InvalidLength(Len(data), G1Size))
    ELSE g1_from_fixed(ark, data)

g1_from_variable(ark, data) ==
    IF Len(data) # G1Size THEN Err(InvalidLength(G1Size, Len(data)))
    ELSE g1_from_fixed(ark, data)

\* g2_from_variable that decodes without the subgroup check
g2_from_variable_unchecked(ark, data) ==
    IF Len(data) # G2Size THEN Err(InvalidLength(G2Size, Len(data)))
    ELSE g2_from_fixed_unchecked(ark, data)

\* g2_from_variable that decodes the first 96 bytes, padded with zeros, before
\* it looks at the length
g2_from_variable_decodes_first(ark, data) ==
    LET buf == [i \in 1..G2Size |-> IF i <= Len(data) THEN data[i] ELSE 0]
        p == g2_from_fixed(ark, buf)
    IN  IF ~p.ok THEN p
        ELSE IF Len(data) # G2Size THEN Err(InvalidLength(G2Size, Len(data)))
        ELSE p

g2_from_variable(ark, data) ==
    IF Len(data) # G2Size THEN Err(InvalidLength(G2Size, Len(data)))
    ELSE g2_from_fixed(ark, data)

-----------------------------------------------------------------------------
(* verify.rs *)

\* round_to_bytes of the round narrowed to 32 bits
round_to_bytes_u32(round) == BigEndian(round, 4)

\* round_to_bytes without leading zero bytes: as many bytes as the round needs
round_to_bytes_minimal(round) ==
    BigEndian(round, IF round < 256 THEN 1 ELSE IF round < 65536 THEN 2
                     ELSE IF round < 16777216 THEN 3 ELSE 4)

\* round.to_be_bytes() of a u64
round_to_bytes(round) == BigEndian(round, 8)

\* message with the round in little-endian byte order
message_little_endian(current_round, prev_sig) ==
    Sha256(prev_sig \o LittleEndian(current_round, 8))

\* Sha256 of prev_sig followed by the round
message(current_round, prev_sig) == Sha256(prev_sig \o round_to_bytes(current_round))

\* main.rs: p.pairing_with(&q)
pairing_with(p, q) == PairingValue(p, q)

\* VerificationError::InvalidPoint { field, msg }
VerificationError(field, msg) == [kind |-> "InvalidPoint", field |-> field, msg |-> msg]

\* impl fmt::Display for VerificationError
VerificationErrorDisplay(e) == "Invalid point for field " \o e.field \o ": " \o e.msg

\* fast_pairing_equality without the negation of p
fast_pairing_equality_no_negation(p, q, r, s) ==
    LET value == MultiPairing(<<(<<p, q>>), (<<r, s>>)>>)
    IN  gt_is_identity(value)

\* e(p, q) == e(r, s), as one Miller loop over (-p, q) and (r, s)
fast_pairing_equality(p, q, r, s) ==
    LET minus_p == NegPoint(p)
        value == MultiPairing(<<(<<minus_p, q>>), (<<r, s>>)>>)
    IN  gt_is_identity(value)

\* a Pubkey instance: the variant and the point it owns
Instance(variant, point) == [variant |-> variant, point |-> point]

\* the outcome of verify_step2: the result, and whether the pairing equality
\* was evaluated
Outcome(res, paired) == [res |-> res, paired |-> paired]

G1Pubkey_msg_to_curve(msg) == hash_to_curve(msg, DOMAIN_HASH_TO_G2, 2)

G1Pubkey_from_fixed(ark, data) ==
    LET p == g1_from_fixed(ark, data)
    IN  IF p.ok THEN Ok(Instance("G1Pubkey", p.val)) ELSE p

G1Pubkey_from_fixed_unchecked(ark, data) ==
    LET p == g1_from_fixed_unchecked(ark, data)
    IN  IF p.ok THEN Ok(Instance("G1Pubkey", p.val)) ELSE p

G1Pubkey_from_variable(ark, data) ==
    LET p == g1_from_variable(ark, data)
    IN  IF p.ok THEN Ok(Instance("G1Pubkey", p.val)) ELSE p

\* verify_step2 reporting a signature that does not decode as Ok(false)
G1Pubkey_verify_step2_error_as_false(ark, self, signature, msg_on_curve) ==
    LET g1 == g1_generator
        sigma == g2_from_variable(ark, signature)
    IN  IF ~sigma.ok
        THEN Outcome(Ok(FALSE), FALSE)
        ELSE LET r == self.point
             IN  Outcome(Ok(fast_pairing_equality(g1, sigma.val, r, msg_on_curve)), TRUE)

G1Pubkey_verify_step2(ark, self, signature, msg_on_curve) ==
    LET g1 == g1_generator
        sigma == g2_from_variable(ark, signature)
    IN  IF ~sigma.ok
        THEN Outcome(Err(VerificationError("signature", InvalidPointDisplay(sigma.err))), FALSE)
        ELSE LET r == self.point
             IN  Outcome(Ok(fast_pairing_equality(g1, sigma.val, r, msg_on_curve)), TRUE)

\* the fastnet hash with the tag of the group it hashes to
G2PubkeyFastnet_msg_to_curve_g1_tag(msg) == hash_to_curve(msg, DOMAIN_HASH_TO_G1, 1)

G2PubkeyFastnet_msg_to_curve(msg) == hash_to_curve(msg, DOMAIN_HASH_TO_G2, 1)

G2PubkeyFastnet_from_fixed(ark, data) ==
    LET p == g2_from_fixed(ark, data)
    IN  IF p.ok THEN Ok(Instance("G2PubkeyFastnet", p.val)) ELSE p

G2PubkeyFastnet_from_fixed_unchecked(ark, data) ==
    LET p == g2_from_fixed_unchecked(ark, data)
    IN  IF p.ok THEN Ok(Instance("G2PubkeyFastnet", p.val)) ELSE p

G2PubkeyFastnet_from_variable(ark, data) ==
    LET p == g2_from_variable(ark, data)
    IN  IF p.ok THEN Ok(Instance("G2PubkeyFastnet", p.val)) ELSE p

G2PubkeyFastnet_verify_step2(ark, self, signature, msg_on_curve) ==
    LET g2 == g2_generator
        sigma == g1_from_variable(ark, signature)
    IN  IF ~sigma.ok
        THEN Outcome(Err(VerificationError("signature", InvalidPointDisplay(sigma.err))), FALSE)
        ELSE LET s == self.point
             IN  Outcome(Ok(fast_pairing_equality(sigma.val, g2, msg_on_curve, s)), TRUE)

G2PubkeyRfc_msg_to_curve(msg) == hash_to_curve(msg, DOMAIN_HASH_TO_G1, 1)

G2PubkeyRfc_from_fixed(ark, data) ==
    LET p == g2_from_fixed(ark, data)
    IN  IF p.ok THEN Ok(Instance("G2PubkeyRfc", p.val)) ELSE p

G2PubkeyRfc_from_fixed_unchecked(ark, data) ==
    LET p == g2_from_fixed_unchecked(ark, data)
    IN  IF p.ok THEN Ok(Instance("G2PubkeyRfc", p.val)) ELSE p

G2PubkeyRfc_from_variable(ark, data) ==
    LET p == g2_from_variable(ark, data)
    IN  IF p.ok THEN Ok(Instance("G2PubkeyRfc", p.val)) ELSE p

\* verify_step2 that answers Ok(false) for the identity key before it decodes
\* the signature
G2PubkeyRfc_verify_step2_checks_key_first(ark, self, signature, msg_on_curve) ==
    LET g2 == g2_generator
        sigma == g1_from_variable(ark, signature)
    IN  IF is_identity_point(self.point) THEN Outcome(Ok(FALSE), FALSE)
        ELSE IF ~sigma.ok
        THEN Outcome(Err(VerificationError("signature", InvalidPointDisplay(sigma.err))), FALSE)
        ELSE LET s == self.point
             IN  Outcome(Ok(fast_pairing_equality(sigma.val, g2, msg_on_curve, s)), TRUE)

G2PubkeyRfc_verify_step2(ark, self, signature, msg_on_curve) ==
    LET g2 == g2_generator
        sigma == g1_from_variable(ark, signature)
    IN  IF ~sigma.ok
        THEN Outcome(Err(VerificationError("signature", InvalidPointDisplay(sigma.err))), FALSE)
        ELSE LET s == self.point
             IN  Outcome(Ok(fast_pairing_equality(sigma.val, g2, msg_on_curve, s)), TRUE)

\* the trait's methods, dispatched on the implementing type
msg_to_curve(variant, msg) ==
    CASE variant = "G1Pubkey" -> G1Pubkey_msg_to_curve(msg)
      [] variant = "G2PubkeyFastnet" -> G2PubkeyFastnet_msg_to_curve(msg)
      [] variant = "G2PubkeyRfc" -> G2PubkeyRfc_msg_to_curve(msg)

from_fixed(ark, variant, data) ==
    CASE variant = "G1Pubkey" -> G1Pubkey_from_fixed(ark, data)
      [] variant = "G2PubkeyFastnet" -> G2PubkeyFastnet_from_fixed(ark, data)
      [] variant = "G2PubkeyRfc" -> G2PubkeyRfc_from_fixed(ark, data)

from_fixed_unchecked(ark, variant, data) ==
    CASE variant = "G1Pubkey" -> G1Pubkey_from_fixed_unchecked(ark, data)
      [] variant = "G2PubkeyFastnet" -> G2PubkeyFastnet_from_fixed_unchecked(ark, data)
      [] variant = "G2PubkeyRfc" -> G2PubkeyRfc_from_fixed_unchecked(ark, data)

from_variable(ark, variant, data) ==
    CASE variant = "G1Pubkey" -> G1Pubkey_from_variable(ark, data)
      [] variant = "G2PubkeyFastnet" -> G2PubkeyFastnet_from_variable(ark, data)
      [] variant = "G2PubkeyRfc" -> G2PubkeyRfc_from_variable(ark, data)

verify_step2(ark, self, signature, msg_on_curve) ==
    CASE self.variant = "G1Pubkey" -> G1Pubkey_verify_step2(ark, self, signature, msg_on_curve)
      [] self.variant = "G2PubkeyFastnet" ->
            G2PubkeyFastnet_verify_step2(ark, self, signature, msg_on_curve)
      [] self.variant = "G2PubkeyRfc" ->
            G2PubkeyRfc_verify_step2(ark, self, signature, msg_on_curve)

\* verify that hashes the round alone, whatever the previous signature
verify_ignores_previous_signature(ark, self, round, previous_signature, signature) ==
    LET msg == message(round, <<>>)
        msg_on_curve == msg_to_curve(self.variant, msg)
        out == verify_step2(ark, self, signature, msg_on_curve)
    IN  [res |-> out.res, paired |-> out.paired, msg_on_curve |-> msg_on_curve]

\* Pubkey::verify; the outcome also tells the point the message was hashed to
verify(ark, self, round, previous_signature, signature) ==
    LET msg == message(round, previous_signature)
        msg_on_curve == msg_to_curve(self.variant, msg)
        out == verify_step2(ark, self, signature, msg_on_curve)
    IN  [res |-> out.res, paired |-> out.paired, msg_on_curve |-> msg_on_curve]

-----------------------------------------------------------------------------
(* randomness.rs *)

\* derive_randomness that first decodes the signature
derive_randomness_validating(signature) ==
    IF Len(signature) = G2Size /\ from_compressed(signature, 2).some
    THEN Sha256(signature) ELSE <<"error", signature>>

\* derive_randomness(signature) = Hash(signature)
derive_randomness(signature) == Sha256(signature)

-----------------------------------------------------------------------------
(* Inputs *)

\* the public key of the signer with secret key sk
SignerPubkey(sk, variant) == Compress(Mul(sk, Generator(SchemeKeyGroup(variant))))

\* the point a signer with secret key sk publishes for a round
SignerPoint(sk, variant, round, prev) ==
    Mul(sk, hash_to_curve(SignerMessage(round, prev), SchemeDst(variant), SchemeSigGroup(variant)))

SignerSignature(sk, variant, round, prev) == Compress(SignerPoint(sk, variant, round, prev))

\* encodings of the length of group g: of points of the prime-order subgroup,
\* of a point outside it, of no point (compression flag cleared, x not on the
\* curve, infinity flag with a non-zero x)
FixedInputsOf(g) ==
    {Compress(Mul(sk, Generator(g))) : sk \in Secrets}
    \cup {Compress(Identity(g)), Compress(NegPoint(Generator(g))),
          Compress(hash_to_curve(MsgSeq[1], DOMAIN_HASH_TO_G2, g)),
          Compress(TorsionPoint(g))}
    \cup {SetByte(Compress(Generator(g)), 1, 17),
          SetByte(Compress(Generator(g)), GroupSize(g), 255),
          SetByte(Compress(Identity(g)), GroupSize(g), 1)}

\* the same and inputs of another length
VariableInputsOf(g) ==
    FixedInputsOf(g)
    \cup {<<>>,
          SubSeq(Compress(Generator(g)), 1, GroupSize(g) - 1),
          Compress(Generator(g)) \o <<0>>,
          Compress(Generator(3 - g))}

\* signatures handed to verify of a variant: those of the signers, the negation
\* of one, one made under the other domain separation tag, and the inputs above
SigInputsOf(variant) ==
    {SignerSignature(sk, variant, round, prev) :
        sk \in Secrets, round \in Rounds, prev \in PrevSigs}
    \cup {Compress(NegPoint(SignerPoint(1, variant, RoundSeq[1], PrevSeq[1]))),
          Compress(hash_to_curve(SignerMessage(RoundSeq[1], PrevSeq[1]),
                                 IF SchemeDst(variant) = DOMAIN_HASH_TO_G1
                                 THEN DOMAIN_HASH_TO_G2 ELSE DOMAIN_HASH_TO_G1,
                                 SchemeSigGroup(variant)))}
    \cup VariableInputsOf(SchemeSigGroup(variant))

\* public keys: of the signers, the identity, and invalid ones
KeyFixedInputsOf(g) ==
    {Compress(Mul(sk, Generator(g))) : sk \in Secrets}
    \cup {Compress(Identity(g)), Compress(TorsionPoint(g)),
          SetByte(Compress(Generator(g)), 1, 17),
          SetByte(Compress(Generator(g)), GroupSize(g), 255)}

KeyVariableInputsOf(g) ==
    KeyFixedInputsOf(g)
    \cup {SubSeq(Compress(Generator(g)), 1, GroupSize(g) - 1), Compress(Generator(3 - g))}

\* points handed to fast_pairing_equality
PairingPointsOf(g) ==
    {Identity(g), Generator(g), Mul(2, Generator(g)),
     Mul(2, hash_to_curve(MsgSeq[1], DOMAIN_HASH_TO_G2, g))}

\* the input sets of each group
FixedInputsByGroup == [g \in {1, 2} |-> FixedInputsOf(g)]
FixedInputs(g) == FixedInputsByGroup[g]
VariableInputsByGroup == [g \in {1, 2} |-> VariableInputsOf(g)]
VariableInputs(g) == VariableInputsByGroup[g]
KeyFixedInputsByGroup == [g \in {1, 2} |-> KeyFixedInputsOf(g)]
KeyFixedInputs(g) == KeyFixedInputsByGroup[g]
KeyVariableInputsByGroup == [g \in {1, 2} |-> KeyVariableInputsOf(g)]
KeyVariableInputs(g) == KeyVariableInputsByGroup[g]
SigInputsByVariant == [variant \in Variants |-> SigInputsOf(variant)]
SigInputs(variant) == SigInputsByVariant[variant]
PairingPointsByGroup == [g \in {1, 2} |-> PairingPointsOf(g)]
PairingPoints(g) == PairingPointsByGroup[g]

\* rounds and previous signatures handed to message
MessageRoundSeq == <<0, 1, 255, 256, 72785, 16909060, 2147483647>>
MessageRounds == {MessageRoundSeq[i] : i \in DOMAIN MessageRoundSeq}
MessagePrevs == PrevSigs \cup {<<0>>, <<1>>, <<0, 0, 0, 0, 0, 0, 0, 1>>}

-----------------------------------------------------------------------------
(* Text: a string is the sequence of its characters *)

HexDigits == <<"0", "1", "2", "3", "4", "5", "6", "7", "8", "9", "a", "b", "c", "d", "e", "f">>

\* the value of a hexadecimal digit, of either case, in base 16 (of a decimal
\* digit in base 10), and -1 for another character
DigitValue(c, base) ==
    LET upper == <<"0", "1", "2", "3", "4", "5", "6", "7", "8", "9", "A", "B", "C", "D", "E", "F">>
    IN  IF \E i \in 1..base : HexDigits[i] = c \/ upper[i] = c
        THEN (CHOOSE i \in 1..base : HexDigits[i] = c \/ upper[i] = c) - 1
        ELSE -1

\* hex::encode
hex_encode(bytes) ==
    [i \in 1..(2 * Len(bytes)) |->
        LET b == bytes[(i + 1) \div 2]
        IN  HexDigits[(IF i % 2 = 1 THEN b \div 16 ELSE b % 16) + 1]]

\* hex::decode: an odd number of characters is OddLength, the first character
\* that is no hexadecimal digit is InvalidHexCharacter { c, index }
hex_decode(text) ==
    IF Len(text) % 2 = 1 THEN Err([kind |-> "OddLength"])
    ELSE IF \E i \in 1..Len(text) : DigitValue(text[i], 16) < 0
         THEN LET i == CHOOSE j \in 1..Len(text) :
                           /\ DigitValue(text[j], 16) < 0
                           /\ \A k \in 1..(j - 1) : DigitValue(text[k], 16) >= 0
              IN  Err([kind |-> "InvalidHexCharacter", c |-> text[i], index |-> i - 1])
    ELSE Ok([i \in 1..(Len(text) \div 2) |->
                16 * DigitValue(text[2 * i - 1], 16) + DigitValue(text[2 * i], 16)])

RECURSIVE DecimalValue(_)
DecimalValue(digits) ==
    IF digits = <<>> THEN 0
    ELSE DecimalValue(SubSeq(digits, 1, Len(digits) - 1)) * 10 + digits[Len(digits)]

\* str::parse::<u64>(): an optional "+", then decimal digits of a value up to
\* u64::MAX = 18446744073709551615
parse_u64(text) ==
    LET U64MaxDigits == <<1, 8, 4, 4, 6, 7, 4, 4, 0, 7, 3, 7, 0, 9, 5, 5, 1, 6, 1, 5>>
        body == IF text # <<>> /\ Head(text) = "+" THEN Tail(text) ELSE text
        digits == [i \in 1..Len(body) |-> DigitValue(body[i], 10)]
        zeros == IF \E i \in 1..Len(digits) : digits[i] # 0
                 THEN (CHOOSE i \in 1..Len(digits) :
                          digits[i] # 0 /\ \A k \in 1..(i - 1) : digits[k] = 0) - 1
                 ELSE Len(digits)
        sig == SubSeq(digits, zeros + 1, Len(digits))
    IN  IF text = <<>> THEN Err([kind |-> "Empty"])
        ELSE IF body = <<>> \/ \E i \in 1..Len(digits) : digits[i] < 0
             THEN Err([kind |-> "InvalidDigit"])
        ELSE IF \/ Len(sig) > Len(U64MaxDigits)
                \/ /\ Len(sig) = Len(U64MaxDigits)
                   /\ \E i \in 1..Len(sig) :
                          sig[i] > U64MaxDigits[i] /\ \A k \in 1..(i - 1) : sig[k] = U64MaxDigits[k]
             THEN Err([kind |-> "PosOverflow"])
        ELSE Ok(DecimalValue(sig))

-----------------------------------------------------------------------------
(* verify_js.rs *)

\* impl fmt::Display for hex::FromHexError
FromHexErrorDisplay(e) ==
    IF e.kind = "OddLength" THEN "Odd number of digits"
    ELSE "Invalid character '" \o e.c \o "' at position " \o ToString(e.index)

\* round.into(): the 32 bits of a u32 extended with zeros to the 64 of a u64
u64_from_u32(round) == BigEndianValue(Zeros(4) \o BigEndian(round, 4))

\* verify_beacon with an error of verify reported as false
verify_beacon_result_error_as_false(result) ==
    IF ~result.ok THEN Ok(FALSE) ELSE Ok(result.val)

\* the ? on the result of verify: its error becomes the display text
verify_beacon_result(result) ==
    IF ~result.ok THEN Err(VerificationErrorDisplay(result.err)) ELSE Ok(result.val)

\* verify_beacon_impl from the decoded key on: pk is the result of
\* g1_from_variable, the signatures are the results of hex::decode; each ?
\* returns the display text of the first error, in the order of the source
verify_beacon_pk(ark, pk, round, previous_signature, signature) ==
    IF ~pk.ok THEN Err(InvalidPointDisplay(pk.err))
    ELSE IF ~previous_signature.ok THEN Err(FromHexErrorDisplay(previous_signature.err))
    ELSE IF ~signature.ok THEN Err(FromHexErrorDisplay(signature.err))
    ELSE verify_beacon_result(verify(ark, Instance("G1Pubkey", pk.val), u64_from_u32(round),
                                     previous_signature.val, signature.val).res)

\* verify_beacon_impl: pk_bytes is the result of hex::decode(pk_hex); the key
\* is a point of G1, the scheme is the chained one
verify_beacon_impl(ark, pk_bytes, round, previous_signature, signature) ==
    IF ~pk_bytes.ok THEN Err(FromHexErrorDisplay(pk_bytes.err))
    ELSE verify_beacon_pk(ark, g1_from_variable(ark, pk_bytes.val), round,
                          previous_signature, signature)

\* verify_beacon: the error of verify_beacon_impl is a VerifyWebError holding
\* the display text, which becomes the JsValue thrown
verify_beacon(ark, pk_hex, round, previous_signature_hex, signature_hex) ==
    verify_beacon_impl(ark, hex_decode(pk_hex), round, hex_decode(previous_signature_hex),
                       hex_decode(signature_hex))

\* the arguments of verify_beacon: hexadecimal texts and a 32-bit round
VerifyBeaconInputs ==
    LET sig == SignerSignature(1, "G1Pubkey", 1, <<>>)
    IN  [pk_hex : {hex_encode(SignerPubkey(1, "G1Pubkey")), <<"z", "z">>,
                   hex_encode(Compress(TorsionPoint(1))),
                   hex_encode(SubSeq(SignerPubkey(1, "G1Pubkey"), 1, G1Size - 1))},
         round : {1, 257, 2147483647},
         previous_signature_hex : {<<>>, hex_encode(PrevSigA), <<"a">>},
         signature_hex : {hex_encode(sig), hex_encode(SignerSignature(1, "G1Pubkey", 1, PrevSigA)),
                          hex_encode(SubSeq(sig, 1, G2Size - 1)), <<"0", "g">>}]

-----------------------------------------------------------------------------
(* Operations *)

\* no thread is in a call
NoThreads ==
    /\ threads = [t \in 1..MaxThreads |-> [pc |-> "idle"]]
    /\ frames = [f \in 1..MaxThreads |-> [msg |-> None, msg_on_curve |-> None]]

Init ==
    /\ arkworks \in BOOLEAN
    /\ keys = {}
    /\ last = [op |-> "none"]
    /\ NoThreads
    /\ cli = [pc |-> "none"]

\* no call is in progress: the caller has taken the result of the last one
Idle == last.op = "none"

\* the caller takes the result of the call
Return ==
    /\ ~Idle
    /\ last' = [op |-> "none"]
    /\ UNCHANGED <<arkworks, keys, procs>>

\* the value a constructor returned is kept by the caller
Constructed(op, variant, data, out) ==
    /\ Idle
    /\ keys' = IF out.ok THEN keys \cup {out.val} ELSE keys
    /\ last' = [op |-> op, variant |-> variant, data |-> data, out |-> out]
    /\ UNCHANGED <<arkworks, procs>>

FromFixed ==
    \E variant \in Variants : \E data \in KeyFixedInputs(SchemeKeyGroup(variant)) :
        /\ Cardinality(keys) < MaxKeys
        /\ Constructed("from_fixed", variant, data, from_fixed(arkworks, variant, data))

FromFixedUnchecked ==
    \E variant \in Variants : \E data \in KeyFixedInputs(SchemeKeyGroup(variant)) :
        /\ Cardinality(keys) < MaxKeys
        /\ Constructed("from_fixed_unchecked", variant, data,
                       from_fixed_unchecked(arkworks, variant, data))

FromVariable ==
    \E variant \in Variants : \E data \in KeyVariableInputs(SchemeKeyGroup(variant)) :
        /\ Cardinality(keys) < MaxKeys
        /\ Constructed("from_variable", variant, data, from_variable(arkworks, variant, data))

\* an instance goes out of scope
Drop ==
    \E k \in keys :
        /\ Idle
        /\ keys' = keys \ {k}
        /\ UNCHANGED <<arkworks, last, procs>>

Verify ==
    \E self \in keys : \E round \in Rounds : \E prev \in PrevSigs :
    \E signature \in SigInputs(self.variant) :
        /\ Idle
        /\ last' = [op |-> "verify", self |-> self, round |-> round, prev |-> prev,
                    signature |-> signature,
                    out |-> verify(arkworks, self, round, prev, signature)]
        /\ UNCHANGED <<arkworks, keys, procs>>

\* the decoders of points.rs, called directly
Decoded(op, g, data, out) ==
    /\ Idle
    /\ last' = [op |-> op, grp |-> g, data |-> data, out |-> out]
    /\ UNCHANGED <<arkworks, keys, procs>>

G1FromVariable ==
    \E data \in VariableInputs(1) :
        Decoded("g1_from_variable", 1, data, g1_from_variable(arkworks, data))

G2FromVariable ==
    \E data \in VariableInputs(2) :
        Decoded("g2_from_variable", 2, data, g2_from_variable(arkworks, data))

G1FromFixed ==
    \E data \in FixedInputs(1) : Decoded("g1_from_fixed", 1, data, g1_from_fixed(arkworks, data))

G2FromFixed ==
    \E data \in FixedInputs(2) : Decoded("g2_from_fixed", 2, data, g2_from_fixed(arkworks, data))

G1FromFixedUnchecked ==
    \E data \in FixedInputs(1) :
        Decoded("g1_from_fixed_unchecked", 1, data, g1_from_fixed_unchecked(arkworks, data))

G2FromFixedUnchecked ==
    \E data \in FixedInputs(2) :
        Decoded("g2_from_fixed_unchecked", 2, data, g2_from_fixed_unchecked(arkworks, data))

FastPairingEquality ==
    \E p \in PairingPoints(1) : \E q \in PairingPoints(2) :
    \E r \in PairingPoints(1) : \E s \in PairingPoints(2) :
        /\ Idle
        /\ last' = [op |-> "fast_pairing_equality", p |-> p, q |-> q, r |-> r, s |-> s,
                    out |-> fast_pairing_equality(p, q, r, s)]
        /\ UNCHANGED <<arkworks, keys, procs>>

\* verify_step2 called by a caller that hashed the message of a beacon to the
\* curve itself
VerifyStep2 ==
    \E self \in keys : \E round \in Rounds : \E prev \in {<<>>, PrevSigA} :
    \E signature \in SigInputs(self.variant) :
        /\ Idle
        /\ last' = [op |-> "verify_step2", self |-> self, round |-> round, prev |-> prev,
                    signature |-> signature,
                    msg_on_curve |-> msg_to_curve(self.variant, message(round, prev)),
                    out |-> verify_step2(arkworks, self, signature,
                                         msg_to_curve(self.variant, message(round, prev)))]
        /\ UNCHANGED <<arkworks, keys, procs>>

Message ==
    \E round \in MessageRounds : \E prev \in MessagePrevs :
        /\ Idle
        /\ last' = [op |-> "message", round |-> round, prev |-> prev,
                    out |-> message(round, prev)]
        /\ UNCHANGED <<arkworks, keys, procs>>

DeriveRandomness ==
    \E signature \in SigInputs("G1Pubkey") \cup SigInputs("G2PubkeyRfc") :
        /\ Idle
        /\ last' = [op |-> "derive_randomness", signature |-> signature,
                    out |-> derive_randomness(signature)]
        /\ UNCHANGED <<arkworks, keys, procs>>

VerifyBeacon ==
    \E in \in VerifyBeaconInputs :
        /\ Idle
        /\ last' = [op |-> "verify_beacon", in |-> in,
                    out |-> verify_beacon(arkworks, in.pk_hex, in.round,
                                          in.previous_signature_hex, in.signature_hex)]
        /\ UNCHANGED <<arkworks, keys, procs>>

Next ==
    \/ FromFixed
    \/ FromFixedUnchecked
    \/ FromVariable
    \/ Drop
    \/ Verify
    \/ VerifyStep2
    \/ G1FromVariable
    \/ G2FromVariable
    \/ G1FromFixed
    \/ G2FromFixed
    \/ G1FromFixedUnchecked
    \/ G2FromFixedUnchecked
    \/ FastPairingEquality
    \/ Message
    \/ DeriveRandomness
    \/ VerifyBeacon
    \/ Return

Spec == Init /\ [][Next]_vars

-----------------------------------------------------------------------------
(* examples/drand_verify.rs: the command-line process *)

\* the public key of the network the program is built for
PK_LEO_MAINNET == SignerPubkey(1, "G1Pubkey")

\* env::args(): the name of the program and the arguments, which are texts
\* of rounds, of previous signatures and of signatures, or fewer, or more
CliArgvs ==
    LET rounds == {<<"1">>, <<"2", "5", "7">>, <<"x", "1">>, <<>>}
        prevs == {<<>>, hex_encode(PrevSigA), <<"a">>, <<"z", "z">>}
        sigs == {hex_encode(SignerSignature(1, "G1Pubkey", 1, <<>>)),
                 hex_encode(SignerSignature(1, "G1Pubkey", 1, PrevSigA)),
                 hex_encode(SubSeq(SignerSignature(1, "G1Pubkey", 1, <<>>), 1, G2Size - 1)),
                 <<"0", "g">>}
    IN  {<<"drand_verify", r, p, sig>> : r \in rounds, p \in prevs, sig \in sigs}
        \cup {<<"drand_verify">>, <<"drand_verify", <<"1">>, <<>>>>,
              <<"drand_verify", <<"1">>, <<>>, <<>>, <<>>>>}

\* a panic unwinds main and the process ends with status 101
PanicCode == 101

InitCli ==
    /\ arkworks \in BOOLEAN
    /\ keys = {}
    /\ last = [op |-> "none"]
    /\ NoThreads
    /\ \E args \in CliArgvs :
           cli = [pc |-> "main_impl", args |-> args, pk |-> None, round |-> None,
                  previous_signature |-> None, signature |-> None, result |-> None,
                  calls |-> <<>>, out |-> <<>>, code |-> None]

\* the process ends with a status
Exited(status) == [cli EXCEPT !.pc = "exited", !.code = Some(status)]

\* let pk = g1_from_fixed(PK_LEO_MAINNET).unwrap()
CliLoadKey ==
    /\ cli.pc = "main_impl"
    /\ LET pk == g1_from_fixed(arkworks, PK_LEO_MAINNET)
       IN  cli' = IF pk.ok THEN [cli EXCEPT !.pc = "args", !.pk = Some(pk.val)]
                  ELSE Exited(PanicCode)
    /\ UNCHANGED <<arkworks, keys, last, threads, frames>>

\* if args.len() != 4 { eprintln!(..); return 100 }
CliCheckArgs ==
    /\ cli.pc = "args"
    /\ cli' = IF Len(cli.args) # 4
              THEN [cli EXCEPT !.pc = "return", !.code = Some(100),
                               !.out = Append(@, <<"stderr",
                                   "Must be called with 3 arguments (round, previous_signature, signature)">>)]
              ELSE [cli EXCEPT !.pc = "parse"]
    /\ UNCHANGED <<arkworks, keys, last, threads, frames>>

\* the three arguments parsed, each unwrapped
CliParseArgs ==
    /\ cli.pc = "parse"
    /\ LET round == parse_u64(cli.args[2])
           previous_signature == hex_decode(cli.args[3])
           signature == hex_decode(cli.args[4])
       IN  cli' = IF round.ok /\ previous_signature.ok /\ signature.ok
                  THEN [cli EXCEPT !.pc = "verify", !.round = Some(round.val),
                                   !.previous_signature = Some(previous_signature.val),
                                   !.signature = Some(signature.val)]
                  ELSE Exited(PanicCode)
    /\ UNCHANGED <<arkworks, keys, last, threads, frames>>

\* verify(&pk, round, &previous_signature, &signature): the key is a point of
\* G1, the scheme is the chained one
CliVerify ==
    /\ cli.pc = "verify"
    /\ cli' = [cli EXCEPT
           !.pc = "match",
           !.calls = Append(@, [fn |-> "verify", signature |-> cli.signature.val]),
           !.result = Some(verify(arkworks, Instance("G1Pubkey", cli.pk.val), cli.round.val,
                                  cli.previous_signature.val, cli.signature.val).res)]
    /\ UNCHANGED <<arkworks, keys, last, threads, frames>>

\* the match with the derivation in the arm of Ok(false) too
main_impl_match_derives_unverified(result) ==
    IF ~result.ok
    THEN [next |-> "return", code |-> 12,
          out |-> <<"stderr", "Error during verification: " \o VerificationErrorDisplay(result.err)>>]
    ELSE IF result.val
         THEN [next |-> "derive", code |-> 0, out |-> <<"stdout", "Verification succeeded">>]
    ELSE [next |-> "derive", code |-> 1, out |-> <<"stdout", "Verification failed">>]

\* the arms of match verify(..): what is printed, what main_impl returns, and
\* whether the randomness is derived before
main_impl_match(result) ==
    IF ~result.ok
    THEN [next |-> "return", code |-> 12,
          out |-> <<"stderr", "Error during verification: " \o VerificationErrorDisplay(result.err)>>]
    ELSE IF result.val
         THEN [next |-> "derive", code |-> 0, out |-> <<"stdout", "Verification succeeded">>]
    ELSE [next |-> "return", code |-> 1, out |-> <<"stdout", "Verification failed">>]

CliMatch ==
    /\ cli.pc = "match"
    /\ LET arm == main_impl_match(cli.result.val)
       IN  cli' = [cli EXCEPT !.pc = arm.next, !.code = Some(arm.code),
                              !.out = Append(@, arm.out)]
    /\ UNCHANGED <<arkworks, keys, last, threads, frames>>

\* let randomness = derive_randomness(&signature); println!(..)
CliDerive ==
    /\ cli.pc = "derive"
    /\ LET randomness == derive_randomness(cli.signature.val)
       IN  cli' = [cli EXCEPT
               !.pc = "return",
               !.calls = Append(@, [fn |-> "derive_randomness", signature |-> cli.signature.val]),
               !.out = Append(@, <<"stdout", "Randomness: ", randomness>>)]
    /\ UNCHANGED <<arkworks, keys, last, threads, frames>>

\* exit(main_impl())
CliExit ==
    /\ cli.pc = "return"
    /\ cli' = Exited(cli.code.val)
    /\ UNCHANGED <<arkworks, keys, last, threads, frames>>

NextCli ==
    \/ CliLoadKey
    \/ CliCheckArgs
    \/ CliParseArgs
    \/ CliVerify
    \/ CliMatch
    \/ CliDerive
    \/ CliExit

SpecCli == InitCli /\ [][NextCli]_vars

-----------------------------------------------------------------------------
(* Threads that call verify on shared instances *)

\* the signers whose public keys the threads share
ThreadSigners == {[variant |-> "G1Pubkey", sk |-> 1], [variant |-> "G2PubkeyRfc", sk |-> 2]}

\* the arguments of the calls: an instance, a round, and the signature of
\* the first round or a signature that is one byte short
ThreadCalls ==
    UNION {
        LET self == Instance(c.variant, Mul(c.sk, Generator(SchemeKeyGroup(c.variant))))
            genuine == SignerSignature(c.sk, c.variant, RoundSeq[1], <<>>)
        IN  {[self |-> self, round |-> round, prev |-> <<>>, signature |-> signature] :
                round \in Rounds, signature \in {genuine, SubSeq(genuine, 1, Len(genuine) - 1)}}
        : c \in ThreadSigners}

\* one stack frame for all threads
StackFrame_static(t) == 1

\* the stack frame of a call of thread t, where its locals msg and
\* msg_on_curve live
StackFrame(t) == t

InitThreads ==
    /\ arkworks \in BOOLEAN
    /\ keys = {from_fixed(arkworks, c.variant, SignerPubkey(c.sk, c.variant)).val :
                   c \in ThreadSigners}
    /\ last = [op |-> "none"]
    /\ NoThreads
    /\ cli = [pc |-> "none"]

\* another thread is in a call
Overlaps(t) == \E u \in (1..MaxThreads) \ {t} : threads[u].pc # "idle"

\* thread t calls verify(&self, round, previous_signature, signature)
ThreadCall(t) ==
    \E c \in ThreadCalls :
        /\ threads[t].pc = "idle"
        /\ c.self \in keys
        /\ threads' = [threads EXCEPT ![t] =
                           [pc |-> "message", self |-> c.self, round |-> c.round,
                            prev |-> c.prev, signature |-> c.signature,
                            overlapped |-> Overlaps(t)]]
        /\ UNCHANGED <<arkworks, keys, last, frames, cli>>

\* let msg = message(round, previous_signature)
ThreadMessage(t) ==
    /\ threads[t].pc = "message"
    /\ frames' = [frames EXCEPT ![StackFrame(t)].msg =
                      Some(message(threads[t].round, threads[t].prev))]
    /\ threads' = [threads EXCEPT ![t].pc = "msg_to_curve",
                                  ![t].overlapped = @ \/ Overlaps(t)]
    /\ UNCHANGED <<arkworks, keys, last, cli>>

\* let msg_on_curve = Self::msg_to_curve(&msg)
ThreadMsgToCurve(t) ==
    /\ threads[t].pc = "msg_to_curve"
    /\ frames' = [frames EXCEPT ![StackFrame(t)].msg_on_curve =
                      Some(msg_to_curve(threads[t].self.variant, frames[StackFrame(t)].msg.val))]
    /\ threads' = [threads EXCEPT ![t].pc = "verify_step2",
                                  ![t].overlapped = @ \/ Overlaps(t)]
    /\ UNCHANGED <<arkworks, keys, last, cli>>

\* self.verify_step2(signature, &msg_on_curve), and the frame is popped
ThreadVerifyStep2(t) ==
    /\ threads[t].pc = "verify_step2"
    /\ threads' = [threads EXCEPT ![t] =
           [pc |-> "done", self |-> @.self, round |-> @.round, prev |-> @.prev,
            signature |-> @.signature, overlapped |-> @.overlapped \/ Overlaps(t),
            out |-> verify_step2(arkworks, @.self, @.signature,
                                 frames[StackFrame(t)].msg_on_curve.val).res]]
    /\ frames' = [frames EXCEPT ![StackFrame(t)] = [msg |-> None, msg_on_curve |-> None]]
    /\ UNCHANGED <<arkworks, keys, last, cli>>

\* the caller of thread t takes the result
ThreadReturn(t) ==
    /\ threads[t].pc = "done"
    /\ threads' = [threads EXCEPT ![t] = [pc |-> "idle"]]
    /\ UNCHANGED <<arkworks, keys, last, frames, cli>>

NextThreads ==
    \E t \in 1..MaxThreads :
        \/ ThreadCall(t)
        \/ ThreadMessage(t)
        \/ ThreadMsgToCurve(t)
        \/ ThreadVerifyStep2(t)
        \/ ThreadReturn(t)

SpecThreads == InitThreads /\ [][NextThreads]_vars

-----------------------------------------------------------------------------
(* Properties *)

\* the signature has the wrong length for the signature group of the variant,
\* or the right length and is not the encoding of a point of the group
MalformedSignature(variant, signature) ==
    \/ Len(signature) # GroupSize(SchemeSigGroup(variant))
    \/ ~from_compressed(signature, SchemeSigGroup(variant)).some

\* C1: verify of a signature that has the wrong length for the variant's
\* signature group, or the right length but does not decode to a valid point,
\* returns Err(VerificationError::InvalidPoint) with field "signature", never
\* Ok(true) or Ok(false), and the pairing equality is not evaluated.
C1_MalformedSignatureIsError ==
    (last.op = "verify" /\ MalformedSignature(last.self.variant, last.signature))
        => /\ ~last.out.res.ok
           /\ last.out.res.err.kind = "InvalidPoint"
           /\ last.out.res.err.field = "signature"
           /\ ~last.out.paired

\* a verify call of the chained G1 variant returned an error for a signature
\* of the right length that is not the encoding of a point
C1_Witness ==
    /\ last.op = "verify"
    /\ last.self.variant = "G1Pubkey"
    /\ Len(last.signature) = G2Size
    /\ MalformedSignature(last.self.variant, last.signature)
    /\ ~last.out.res.ok

\* C2: for the public key and a signature of a genuine signer of a scheme
\* (secret key sk, public key sk times the generator, signature sk times the
\* hash to the curve of Sha256(previous_signature || big-endian round) under
\* the scheme's tag), verify returns Ok(true), in chained and unchained mode.
C2_GenuineBeaconVerifies ==
    last.op = "verify" =>
        \A sk \in Secrets :
            (/\ last.self.point = Mul(sk, Generator(SchemeKeyGroup(last.self.variant)))
             /\ last.signature =
                    SignerSignature(sk, last.self.variant, last.round, last.prev))
                => (last.out.res.ok /\ last.out.res.val = TRUE)

\* verify returned Ok(true) for a genuine chained beacon of the fastnet variant
C2_Witness ==
    /\ last.op = "verify"
    /\ last.self.variant = "G2PubkeyFastnet"
    /\ last.prev = PrevSigA
    /\ last.self.point = Mul(2, Generator(2))
    /\ last.signature = SignerSignature(2, "G2PubkeyFastnet", last.round, last.prev)
    /\ last.out.res.ok
    /\ last.out.res.val = TRUE

\* C3: if verify(round, previous_signature, signature) returns Ok(true) for a
\* Pubkey, then verify(round2, previous_signature, signature) returns
\* Ok(false) on the same Pubkey for every other round2.
C3_NoRoundSubstitution ==
    (last.op = "verify" /\ last.out.res.ok /\ last.out.res.val = TRUE)
        => \A round2 \in Rounds \ {last.round} :
               LET res2 == verify(arkworks, last.self, round2, last.prev, last.signature).res
               IN  res2.ok /\ res2.val = FALSE

\* prev2 has the length of prev and differs from it in one byte
OneByteChanged(prev, prev2) ==
    /\ Len(prev2) = Len(prev)
    /\ Cardinality({i \in 1..Len(prev) : prev[i] # prev2[i]}) = 1

\* C4: in chained mode, if verify(round, previous_signature, signature) returns
\* Ok(true), then verify with the same round and signature and a previous
\* signature that differs in one byte returns Ok(false).
C4_PreviousSignatureBound ==
    (last.op = "verify" /\ last.prev # <<>> /\ last.out.res.ok /\ last.out.res.val = TRUE)
        => \A prev2 \in PrevSigs :
               OneByteChanged(last.prev, prev2) =>
                   LET res2 == verify(arkworks, last.self, last.round, prev2, last.signature).res
                   IN  res2.ok /\ res2.val = FALSE

\* C5: for a public key a times the generator, a signature that decodes to a
\* point of the signature group other than the genuine one (a times the hash
\* of the message to the curve) makes verify return Ok(false), not an error;
\* and verify returns Ok(false) only for a signature that decoded.
C5_WrongSignatureIsFalse ==
    last.op = "verify" =>
        LET variant == last.self.variant
            g == SchemeSigGroup(variant)
            hashed == hash_to_curve(SignerMessage(last.round, last.prev), SchemeDst(variant), g)
        IN  /\ \A a \in 0..(ScalarOrder - 1) :
                  (/\ last.self.point = Mul(a, Generator(SchemeKeyGroup(variant)))
                   /\ ~MalformedSignature(variant, last.signature)
                   /\ from_compressed(last.signature, g).val # Mul(a, hashed))
                      => (last.out.res.ok /\ last.out.res.val = FALSE)
            /\ (last.out.res.ok /\ last.out.res.val = FALSE)
                  => ~MalformedSignature(variant, last.signature)

\* verify returned Ok(false) for the negation of the genuine signature
C5_Witness ==
    /\ last.op = "verify"
    /\ last.self.point = Mul(1, Generator(SchemeKeyGroup(last.self.variant)))
    /\ last.round = RoundSeq[1]
    /\ last.prev = PrevSeq[1]
    /\ last.signature =
           Compress(NegPoint(SignerPoint(1, last.self.variant, RoundSeq[1], PrevSeq[1])))
    /\ last.out.res.ok
    /\ last.out.res.val = FALSE

\* the point is the identity or has the x-coordinate of a point of the curve
OnCurve(P) ==
    \/ is_identity_point(P)
    \/ \E i \in 1..Len(Curve(P.grp)) : Curve(P.grp)[i] = P \/ Curve(P.grp)[i] = NegPoint(P)

\* data is not the encoding of a point of the prime-order subgroup of the
\* variant's public key group
InvalidKey(variant, data) ==
    \/ Len(data) # GroupSize(SchemeKeyGroup(variant))
    \/ ~from_compressed(data, SchemeKeyGroup(variant)).some

Constructors == {"from_fixed", "from_fixed_unchecked", "from_variable"}

\* C6 as stated: every constructor fails for an encoding that is malformed,
\* off the curve or outside the subgroup, and every Pubkey instance holds a
\* point of the prime-order subgroup of its public key group.
C6_EveryConstructorValidates ==
    /\ (last.op \in Constructors /\ InvalidKey(last.variant, last.data)) => ~last.out.ok
    /\ \A k \in keys :
           k.point.grp = SchemeKeyGroup(k.variant) /\ OnCurve(k.point) /\ is_torsion_free(k.point)

\* C6 amended: from_fixed and from_variable fail with InvalidPoint for every
\* such encoding; from_fixed_unchecked fails for a malformed or off-curve
\* encoding, and with the bls12_381 backend it accepts the encoding of a point
\* of the curve outside the prime-order subgroup (with arkworks it rejects it);
\* every instance holds a point of the curve of its public key group.
C6_CheckedConstructorsValidate ==
    /\ (last.op \in {"from_fixed", "from_variable"} /\ InvalidKey(last.variant, last.data))
           => (~last.out.ok /\ last.out.err.kind \in {"InvalidLength", "DecodingError"})
    /\ (last.op = "from_fixed_unchecked" /\ InvalidKey(last.variant, last.data))
           => LET p == from_compressed_unchecked(last.data, SchemeKeyGroup(last.variant))
              IN  IF ~arkworks /\ p.some
                  THEN last.out.ok /\ last.out.val.point = p.val /\ last.out.val \in keys
                  ELSE ~last.out.ok /\ last.out.err.kind = "DecodingError"
    /\ \A k \in keys :
           /\ k.point.grp = SchemeKeyGroup(k.variant)
           /\ OnCurve(k.point)
           /\ arkworks => is_torsion_free(k.point)

\* from_fixed_unchecked returned an instance whose point is outside the
\* prime-order subgroup
C6_Witness ==
    /\ last.op = "from_fixed_unchecked"
    /\ last.data = Compress(TorsionPoint(SchemeKeyGroup(last.variant)))
    /\ last.out.ok
    /\ ~is_torsion_free(last.out.val.point)
    /\ last.out.val \in keys

VariableDecoders == {"g1_from_variable", "g2_from_variable"}

\* C7 as stated: g1_from_variable and g2_from_variable fail on an input of
\* another length than the group's size with UnexpectedLength{expected, actual}.
C7_UnexpectedLength ==
    (last.op \in VariableDecoders /\ Len(last.data) # GroupSize(last.grp))
        => /\ ~last.out.ok
           /\ last.out.err.kind = "UnexpectedLength"
           /\ last.out.err.expected = GroupSize(last.grp)
           /\ last.out.err.actual = Len(last.data)

\* C7 amended: they fail on such an input with InvalidLength{expected, actual},
\* expected the size of the group (48 or 96) and actual the length of the
\* input; the error is not DecodingError.
C7_InvalidLength ==
    (last.op \in VariableDecoders /\ Len(last.data) # GroupSize(last.grp))
        => /\ ~last.out.ok
           /\ last.out.err.kind = "InvalidLength"
           /\ last.out.err.kind # "DecodingError"
           /\ last.out.err.expected = (IF last.op = "g1_from_variable" THEN 48 ELSE 96)
           /\ last.out.err.actual = Len(last.data)

\* g1_from_variable failed on an input of 47 bytes
C7_Witness ==
    /\ last.op = "g1_from_variable"
    /\ Len(last.data) = 47
    /\ ~last.out.ok
    /\ last.out.err.expected = 48
    /\ last.out.err.actual = 47

SameResult(a, b) == a.ok = b.ok /\ (IF a.ok THEN a.val = b.val ELSE a.err = b.err)

\* C8: on an input of the group's size, g1_from_variable returns what
\* g1_from_fixed returns on the same bytes, and g2_from_variable what
\* g2_from_fixed returns: the same point, or DecodingError.
C8_VariableDelegatesToFixed ==
    /\ (last.op = "g1_from_variable" /\ Len(last.data) = 48)
           => /\ SameResult(last.out, g1_from_fixed(arkworks, last.data))
              /\ ~last.out.ok => last.out.err.kind = "DecodingError"
    /\ (last.op = "g2_from_variable" /\ Len(last.data) = 96)
           => /\ SameResult(last.out, g2_from_fixed(arkworks, last.data))
              /\ ~last.out.ok => last.out.err.kind = "DecodingError"

\* g2_from_variable rejected the 96 bytes of a point outside the subgroup
C8_Witness ==
    /\ last.op = "g2_from_variable"
    /\ last.data = Compress(TorsionPoint(2))
    /\ Len(last.data) = 96
    /\ ~last.out.ok
    /\ last.out.err.kind = "DecodingError"

\* the variant table
TableKeyGroup(variant) == IF variant = "G1Pubkey" THEN 1 ELSE 2
TableKeySize(variant) == IF variant = "G1Pubkey" THEN 48 ELSE 96
TableSigGroup(variant) == IF variant = "G1Pubkey" THEN 2 ELSE 1
TableSigSize(variant) == IF variant = "G1Pubkey" THEN 96 ELSE 48
TableTag(variant) ==
    IF variant = "G2PubkeyRfc" THEN "BLS_SIG_BLS12381G1_XMD:SHA-256_SSWU_RO_NUL_"
    ELSE "BLS_SIG_BLS12381G2_XMD:SHA-256_SSWU_RO_NUL_"

\* C9: each variant has the key group and size, the signature group and size
\* and the domain separation tag of the variant table: a constructor accepts
\* only a key of the table's size and yields a point of the table's group;
\* verify hashes the message to the table's signature group with the table's
\* tag and accepts only a signature of the table's size.
C9_VariantTable ==
    /\ (last.op \in Constructors /\ last.out.ok)
           => /\ Len(last.data) = TableKeySize(last.variant)
              /\ last.out.val.variant = last.variant
              /\ last.out.val.point.grp = TableKeyGroup(last.variant)
    /\ last.op = "verify"
           => /\ last.out.msg_on_curve =
                     hash_to_curve(Sha256(last.prev \o BigEndian(last.round, 8)),
                                   TableTag(last.self.variant),
                                   TableSigGroup(last.self.variant))
              /\ last.out.res.ok => Len(last.signature) = TableSigSize(last.self.variant)
              /\ (Len(last.signature) # TableSigSize(last.self.variant))
                     => (~last.out.res.ok /\ last.out.res.err.msg =
                            InvalidPointDisplay(InvalidLength(TableSigSize(last.self.variant),
                                                              Len(last.signature))))

\* verify of the fastnet variant returned Ok(true) for a 48-byte signature
\* over the message hashed to group 1 with the tag of group 2
C9_Witness ==
    /\ last.op = "verify"
    /\ last.self.variant = "G2PubkeyFastnet"
    /\ last.self.point.grp = 2
    /\ Len(last.signature) = 48
    /\ last.out.msg_on_curve.grp = 1
    /\ last.out.res.ok
    /\ last.out.res.val = TRUE

\* C10: fast_pairing_equality(p, q, r, s) is true exactly if the pairing of p
\* and q equals the pairing of r and s, computed one by one and compared.
C10_FastPairingIsPairingEquality ==
    last.op = "fast_pairing_equality"
        => last.out = (pairing_with(last.p, last.q) = pairing_with(last.r, last.s))

\* fast_pairing_equality returned true for two different pairs of points that
\* are not the identity
C10_Witness ==
    /\ last.op = "fast_pairing_equality"
    /\ last.p # last.r
    /\ last.q # last.s
    /\ ~is_identity_point(last.p)
    /\ ~is_identity_point(last.q)
    /\ last.out = TRUE

\* data is prev followed by 8 bytes that are the round, most significant first
PrevThenRound(data, prev, round) ==
    /\ Len(data) = Len(prev) + 8
    /\ SubSeq(data, 1, Len(prev)) = prev
    /\ \A i \in 1..Len(data) : data[i] \in 0..255
    /\ BigEndianValue(SubSeq(data, Len(prev) + 1, Len(prev) + 8)) = round

\* C11: the message verify hashes to the curve is the Sha256 digest of
\* previous_signature followed by the round as exactly 8 bytes, most
\* significant byte first; with an empty previous_signature the digest input is
\* exactly the 8 bytes of the round.
C11_MessageIsDigestOfPrevAndRound ==
    /\ last.op = "message"
           => /\ last.out[1] = "sha256"
              /\ PrevThenRound(last.out[2], last.prev, last.round)
              /\ last.prev = <<>> => Len(last.out[2]) = 8
    /\ last.op = "verify"
           => \E k \in DOMAIN last.out.msg_on_curve.v :
                  /\ DOMAIN last.out.msg_on_curve.v = {k}
                  /\ k[1] = "h2c"
                  /\ k[2][1] = "sha256"
                  /\ PrevThenRound(k[2][2], last.prev, last.round)

\* message of round 72785 in unchained mode is the digest of 00 00 00 00 00 01 1c 51
C11_Witness ==
    /\ last.op = "message"
    /\ last.prev = <<>>
    /\ last.round = 72785
    /\ last.out = Sha256(<<0, 0, 0, 0, 0, 1, 28, 81>>)

\* C12: derive_randomness returns a digest for every input, also for bytes
\* that are not a valid signature (no validation, no error), and the digest is
\* determined by the signature bytes alone: in every state, whatever instances
\* exist and whatever the backend, it is the Sha256 digest of those bytes.
C12_DeriveRandomnessIsTotal ==
    last.op = "derive_randomness"
        => /\ last.out[1] = "sha256"
           /\ last.out[2] = last.signature
           /\ Len(last.out) = 2

\* derive_randomness returned a digest for 95 bytes, which are no signature,
\* while a Pubkey instance exists
C12_Witness ==
    /\ last.op = "derive_randomness"
    /\ Len(last.signature) = 95
    /\ keys # {}
    /\ last.out[1] = "sha256"

\* C13: calls of verify by several threads on the same or different
\* instances, one after the other or interleaved, each return what verify
\* returns on the same inputs executed alone, and the instances stay as they
\* were constructed.
C13_VerifyIsThreadSafe ==
    /\ \A t \in 1..MaxThreads :
           threads[t].pc = "done"
               => threads[t].out =
                      verify(arkworks, threads[t].self, threads[t].round, threads[t].prev,
                             threads[t].signature).res
    /\ keys = {Instance(c.variant, Mul(c.sk, Generator(SchemeKeyGroup(c.variant)))) :
                   c \in ThreadSigners}

\* two calls on the same instance that overlapped returned Ok(true) for the
\* signed round and Ok(false) for the other round
C13_Witness ==
    /\ threads[1].pc = "done"
    /\ threads[2].pc = "done"
    /\ threads[1].overlapped
    /\ threads[2].overlapped
    /\ threads[1].self = threads[2].self
    /\ threads[1].round # threads[2].round
    /\ threads[1].out = Ok(TRUE)
    /\ threads[2].out = Ok(FALSE)

\* C15: verify_beacon returns the boolean result of verify on success, with
\* the 32-bit round passed on with its value unchanged, and on every failure
\* (a hexadecimal text that does not decode, a public key that is no valid
\* point, an error of verify) a string that is the display text of that
\* error.
C15_VerifyBeaconResult ==
    last.op = "verify_beacon" =>
        LET in == last.in
            pk_bytes == hex_decode(in.pk_hex)
            previous_signature == hex_decode(in.previous_signature_hex)
            signature == hex_decode(in.signature_hex)
            hex_ok == pk_bytes.ok /\ previous_signature.ok /\ signature.ok
            pk == g1_from_variable(arkworks, pk_bytes.val)
            result == verify(arkworks, Instance("G1Pubkey", pk.val), in.round,
                             previous_signature.val, signature.val).res
        IN  /\ last.out.ok <=> (hex_ok /\ pk.ok /\ result.ok)
            /\ last.out.ok => (last.out.val \in BOOLEAN /\ last.out.val = result.val)
            /\ ~last.out.ok =>
                   \/ \E d \in {pk_bytes, previous_signature, signature} :
                          ~d.ok /\ last.out.err = FromHexErrorDisplay(d.err)
                   \/ pk_bytes.ok /\ ~pk.ok /\ last.out.err = InvalidPointDisplay(pk.err)
                   \/ /\ hex_ok /\ pk.ok /\ ~result.ok
                      /\ last.out.err = VerificationErrorDisplay(result.err)

\* verify_beacon of the largest round of the model failed with the display
\* text of the error of verify for a signature of 95 bytes
C15_Witness ==
    /\ last.op = "verify_beacon"
    /\ last.in.round = 2147483647
    /\ ~last.out.ok
    /\ last.out.err = "Invalid point for field signature: Invalid input length for point (must be in compressed format): Expected 96, actual: 95"

FixedDecoders == {"g1_from_fixed", "g2_from_fixed"}
UncheckedDecoders == {"g1_from_fixed_unchecked", "g2_from_fixed_unchecked"}

\* the checked and the unchecked decoder of a group
CheckedResult(g, data) ==
    IF g = 1 THEN g1_from_fixed(arkworks, data) ELSE g2_from_fixed(arkworks, data)
UncheckedResult(g, data) ==
    IF g = 1 THEN g1_from_fixed_unchecked(arkworks, data)
    ELSE g2_from_fixed_unchecked(arkworks, data)

\* C16: for every encoding the checked decoder (g1_from_fixed, g2_from_fixed)
\* accepts, the unchecked decoder of the group returns Ok with the same point.
C16_UncheckedAgreesOnAccepted ==
    /\ (last.op \in FixedDecoders /\ last.out.ok)
           => UncheckedResult(last.grp, last.data) = Ok(last.out.val)
    /\ (last.op \in UncheckedDecoders /\ CheckedResult(last.grp, last.data).ok)
           => last.out = CheckedResult(last.grp, last.data)

\* g1_from_fixed_unchecked returned the negation of the generator, which
\* g1_from_fixed accepts too
C16_Witness ==
    /\ last.op = "g1_from_fixed_unchecked"
    /\ last.data = Compress(NegPoint(Generator(1)))
    /\ g1_from_fixed(arkworks, last.data).ok
    /\ last.out = Ok(NegPoint(Generator(1)))

\* C17: the checked decoders fail with DecodingError for every input of the
\* right length that is not the canonical encoding of a point of the curve in
\* the prime-order subgroup; for the unchecked decoders the decompression of
\* the bytes alone decides, without the subgroup check, under every backend.
C17_CheckedAndUnchecked ==
    /\ (last.op \in FixedDecoders /\ ~from_compressed(last.data, last.grp).some)
           => (~last.out.ok /\ last.out.err.kind = "DecodingError")
    /\ last.op \in UncheckedDecoders
           => last.out = ok_or(from_compressed_unchecked(last.data, last.grp), DecodingError)

\* C18: verify(round, previous_signature, signature) returns what
\* verify_step2(signature, msg_to_curve(message(round, previous_signature)))
\* returns, for every variant: a caller that hashed the message to the curve
\* and calls verify_step2 gets the result of verify, and the other way round.
C18_VerifyIsStep2OfHashedMessage ==
    /\ last.op = "verify_step2"
           => last.out.res =
                  verify(arkworks, last.self, last.round, last.prev, last.signature).res
    /\ last.op = "verify"
           => last.out.res =
                  verify_step2(arkworks, last.self, last.signature,
                               msg_to_curve(last.self.variant,
                                            message(last.round, last.prev))).res

\* verify_step2 on the hashed message of a chained beacon returned Ok(true)
\* for the Rfc variant
C18_Witness ==
    /\ last.op = "verify_step2"
    /\ last.self.variant = "G2PubkeyRfc"
    /\ last.prev = PrevSigA
    /\ last.msg_on_curve = hash_to_curve(Sha256(PrevSigA \o BigEndian(last.round, 8)),
                                          DOMAIN_HASH_TO_G1, 1)
    /\ last.out.res = Ok(TRUE)

\* C20: g1_from_variable and g2_from_variable check the length before they
\* decode: an input of another length than the group's size yields the length
\* error and never DecodingError, whatever its bytes, and an input of the
\* group's size yields Ok or DecodingError and never the length error.
C20_LengthCheckFirst ==
    last.op \in VariableDecoders =>
        IF Len(last.data) # GroupSize(last.grp)
        THEN ~last.out.ok /\ last.out.err.kind = "InvalidLength"
        ELSE last.out.ok \/ last.out.err.kind = "DecodingError"

\* g2_from_variable returned the length error for 97 bytes that start with
\* the encoding of a point
C20_Witness ==
    /\ last.op = "g2_from_variable"
    /\ Len(last.data) = 97
    /\ g2_from_fixed(arkworks, SubSeq(last.data, 1, 96)).ok
    /\ ~last.out.ok
    /\ last.out.err.kind = "InvalidLength"

\* the result of verify in a run of the command-line process
CliVerified(res) == cli.result.some /\ cli.result.val = res

\* C14: the command-line process exits with 0 exactly when verify returned
\* Ok(true), 1 exactly when it returned Ok(false), 12 exactly when it returned
\* an error, 100 exactly when the number of arguments is not three, and with
\* no other status.
C14_ExitCodes ==
    cli.pc = "exited"
        => /\ cli.code.val \in {0, 1, 12, 100}
           /\ cli.code.val = 0 <=> CliVerified(Ok(TRUE))
           /\ cli.code.val = 1 <=> CliVerified(Ok(FALSE))
           /\ cli.code.val = 12 <=> (cli.result.some /\ ~cli.result.val.ok)
           /\ cli.code.val = 100 <=> Len(cli.args) # 4

\* C19: the command-line process calls derive_randomness only after verify
\* returned Ok(true) for the same signature: never before verify returned,
\* never after Ok(false) or an error.
C19_DeriveOnlyAfterVerified ==
    \A i \in 1..Len(cli.calls) :
        cli.calls[i].fn = "derive_randomness"
            => /\ CliVerified(Ok(TRUE))
               /\ \E j \in 1..(i - 1) :
                      cli.calls[j].fn = "verify" /\ cli.calls[j].signature = cli.calls[i].signature
               /\ cli.calls[i].signature = cli.signature.val

\* a run exited with 0 after verify and then derive_randomness, and printed
\* the randomness
C19_Witness ==
    /\ cli.pc = "exited"
    /\ cli.code.val = 0
    /\ Len(cli.calls) = 2
    /\ cli.calls[2].fn = "derive_randomness"
    /\ cli.out[Len(cli.out)] = <<"stdout", "Randomness: ", Sha256(cli.signature.val)>>

\* the instances of a variant the constructors return in this build
Pubkeys(variant) ==
    {from_fixed_unchecked(arkworks, variant, data).val :
        data \in {d \in KeyFixedInputs(SchemeKeyGroup(variant)) :
                      from_fixed_unchecked(arkworks, variant, d).ok}}

\* two results of verify are both Ok, or both Err with the same error
SameError(a, b) == a.ok = b.ok /\ (~a.ok => a.err = b.err)

\* the InvalidPoint of a signature for a signature group: its length is not
\* the group's, or it is and the bytes encode no point of the group
SignatureInvalidPoint(g, signature) ==
    IF Len(signature) # GroupSize(g) THEN InvalidLength(GroupSize(g), Len(signature))
    ELSE DecodingError

\* C21: whether verify returns an error, and which, depends only on the
\* signature bytes and the signature group of the variant: for the signature
\* of a verify call, verify of every variant with that signature group, every
\* public key, round and previous_signature returns Err with the same error
\* or Err for none of them; the error is InvalidPoint with field "signature",
\* and its msg is the display text of the InvalidPoint of the signature (the
\* length error or the decoding error).
C21_ErrorDependsOnSignatureOnly ==
    last.op = "verify"
        => /\ \A variant2 \in {v \in Variants :
                                  SchemeSigGroup(v) = SchemeSigGroup(last.self.variant)} :
              \A self2 \in Pubkeys(variant2) : \A round2 \in Rounds : \A prev2 \in PrevSigs :
                  SameError(verify(arkworks, self2, round2, prev2, last.signature).res,
                            last.out.res)
           /\ ~last.out.res.ok
                  => /\ last.out.res.err.kind = "InvalidPoint"
                     /\ last.out.res.err.field = "signature"
                     /\ last.out.res.err.msg =
                            InvalidPointDisplay(SignatureInvalidPoint(
                                SchemeSigGroup(last.self.variant), last.signature))

\* verify of an unchained G2 key returned the length error for a signature of
\* 47 bytes, and the build has another key of the variant
C21_Witness ==
    /\ last.op = "verify"
    /\ last.self.variant = "G2PubkeyRfc"
    /\ Len(last.signature) = G1Size - 1
    /\ ~last.out.res.ok
    /\ last.out.res.err.msg =
           "Invalid input length for point (must be in compressed format): Expected 48, actual: 47"
    /\ \E self2 \in Pubkeys("G2PubkeyRfc") : self2 # last.self /\ is_identity_point(self2.point)

\* C22: the byte string message hashes, previous_signature followed by the 8
\* bytes of the round, is injective in (previous_signature, round): no other
\* pair, of a previous_signature of the same or another length or of the empty
\* one, gives the byte string of a call of message, so the message verify
\* hashes to the curve for a beacon is that of no other pair.
C22_PreHashIsInjective ==
    /\ last.op = "message"
           => \A prev2 \in MessagePrevs : \A round2 \in MessageRounds :
                  (prev2 # last.prev \/ round2 # last.round)
                      => message(round2, prev2)[2] # last.out[2]
    /\ last.op = "verify"
           => \A prev2 \in MessagePrevs : \A round2 \in MessageRounds :
                  (prev2 # last.prev \/ round2 # last.round)
                      => msg_to_curve(last.self.variant, message(round2, prev2))
                             # last.out.msg_on_curve

\* message of the one-byte previous_signature 01 and round 0 hashed nine
\* bytes, while round 256 in unchained mode gives the eight bytes that end in
\* 01 00
C22_Witness ==
    /\ last.op = "message"
    /\ last.prev = <<1>>
    /\ last.round = 0
    /\ last.out[2] = <<1, 0, 0, 0, 0, 0, 0, 0, 0>>
    /\ message(256, <<>>)[2] = <<0, 0, 0, 0, 0, 0, 1, 0>>

====
